---- MODULE Spec2Model ----
(***************************************************************************)
(* A model of BinanceFuturesBot (src/binance_futures_bot.py): the request  *)
(* building, signing and dispatch pipeline and the interpretation of the   *)
(* HTTP response, one public operation per action.                         *)
(*                                                                         *)
(* Text is modelled as a sequence of tokens.  A token is a run of          *)
(* characters that urlencode leaves alone ("symbol", "BTCUSDT", "5000"),   *)
(* or one reserved character ("&", "=", " ").  Conversions (upper, lower,  *)
(* str, quote_plus) act token by token.                                    *)
(***************************************************************************)
EXTENDS Integers, Sequences, FiniteSets, TLC

VARIABLES
    client,     \* the BinanceFuturesBot instance: the fields __init__ sets
    clock,      \* time.time() * 1000
    pc,         \* "idle", "inflight" (the HTTP call is pending) or "done"
    call,       \* the public operation being run, its arguments, its clock reading
    wire,       \* the requests handed to the transport by the current call
    response,   \* what the transport handed back
    outcome,    \* what the call returned or raised
    threads,    \* concurrent callers of the one client: each one's locals
    dicts       \* the params dict object of each concurrent caller's call

vars == <<client, clock, pc, call, wire, response, outcome, threads, dicts>>

\* ------------------------------------------------------------------ bounds

\* The clock ticks from 0 to MaxClock (abstract milliseconds).
MaxClock == 1

\* The number of threads that share the client.
NThreads == 2

\* place_order is called with at most MaxExtras of its seven trailing
\* optional arguments (reduce_only .. position_side) supplied, or with all
\* seven.
MaxExtras == 1

\* ------------------------------------------------------- Python values

None == [t |-> "none", s |-> <<>>, n |-> 0]

StrVal(s) == [t |-> "str", s |-> s, n |-> 0]

IntVal(n) == [t |-> "int", s |-> <<>>, n |-> n]

FloatVal(repr) == [t |-> "float", s |-> <<repr>>, n |-> 0]

BoolVal(b) == [t |-> "bool", s |-> <<>>, n |-> IF b THEN 1 ELSE 0]

\* str(v), as urlencode and the f-strings apply it.
PyStr(v) ==
    CASE v.t = "int" -> <<ToString(v.n)>>
      [] v.t = "bool" -> IF v.n = 1 THEN <<"True">> ELSE <<"False">>
      [] v.t = "none" -> <<"None">>
      [] OTHER -> v.s

\* Truthiness of an Optional[str] argument: None and "" are falsy.
Truthy(v) == v.t = "str" /\ v.s # <<>>

UpperTok(c) ==
    CASE c = "btcusdt" -> "BTCUSDT"
      [] c = "x" -> "X"
      [] c = "timestamp" -> "TIMESTAMP"
      [] c = "buy" -> "BUY"
      [] c = "sell" -> "SELL"
      [] c = "limit" -> "LIMIT"
      [] c = "market" -> "MARKET"
      [] c = "gtc" -> "GTC"
      [] c = "mark_price" -> "MARK_PRICE"
      [] c = "result" -> "RESULT"
      [] c = "long" -> "LONG"
      [] OTHER -> c

\* A bug: str(flag) is sent as Python prints it, .lower() is left out.
LowerTok_AsPrinted(c) == c

LowerTok(c) ==
    CASE c = "True" -> "true"
      [] c = "False" -> "false"
      [] OTHER -> c

upper(s) == [i \in DOMAIN s |-> UpperTok(s[i])]

lower(s) == [i \in DOMAIN s |-> LowerTok(s[i])]

\* ------------------------------------------------- ordered dictionaries

\* A dict is the sequence of its items in insertion order, keys unique.
Item(k, v) == [k |-> k, v |-> v]

HasKey(d, k) == \E i \in DOMAIN d : d[i].k = k

\* d[k] = v: a new key is appended, an existing key keeps its position.
DictSet(d, k, v) ==
    IF HasKey(d, k)
    THEN [i \in DOMAIN d |-> IF d[i].k = k THEN Item(k, v) ELSE d[i]]
    ELSE Append(d, Item(k, v))

\* if v is not None: d[k] = f(v)
SetIfGiven(d, k, v, w) == IF v.t # "none" THEN DictSet(d, k, w) ELSE d

Keys(d) == [i \in DOMAIN d |-> d[i].k]

\* ------------------------------------------------- signing and dispatch

\* A bug: the query string is joined by hand, nothing is escaped.
QuoteTok_Raw(c) == c

\* urllib.parse.quote_plus on one token: reserved characters are escaped.
QuoteTok(c) ==
    CASE c = "&" -> "%26"
      [] c = "=" -> "%3D"
      [] c = " " -> "+"
      [] c = "?" -> "%3F"
      [] OTHER -> c

quote_plus(s) == [i \in DOMAIN s |-> QuoteTok(s[i])]

\* One item of the query string: quote_plus(k) = quote_plus(str(v)).
EncodeItem(it) == quote_plus(<<it.k>>) \o <<"=">> \o quote_plus(PyStr(it.v))

RECURSIVE urlencode(_)
\* urllib.parse.urlencode(params): the items in dict order, joined by "&".
urlencode(d) ==
    IF d = <<>> THEN <<>>
    ELSE IF Len(d) = 1 THEN EncodeItem(d[1])
    ELSE urlencode(SubSeq(d, 1, Len(d) - 1)) \o <<"&">> \o EncodeItem(d[Len(d)])

\* hmac.new(secret, query_string, sha256).hexdigest(): a tag that is a
\* function of the key and of the exact text, and of nothing else; distinct
\* (key, text) pairs give distinct tags.
generate_signature(secret, query_string) == ToString(<<secret, query_string>>)

\* A bug: the two assignments of lines 113-114 are swapped.
Authenticate_RecvWindowFirst(c, params, now) ==
    DictSet(DictSet(params, "recvWindow", IntVal(c.recv_window)),
            "timestamp", IntVal(now))

\* Lines 111-114: the timestamp and the receive window are stored in the
\* caller's dict.
Authenticate(c, params, now) ==
    DictSet(DictSet(params, "timestamp", IntVal(now)),
            "recvWindow", IntVal(c.recv_window))

\* A bug: the tag is computed before the last parameter is in the string.
SignedQuery_SignsTooEarly(c, params) ==
    urlencode(params)
      \o <<"&", "signature", "=",
           generate_signature(c.api_secret,
                              urlencode(SubSeq(params, 1, Len(params) - 1)))>>

\* Lines 116-122: the query string, signed when the request is signed.
SignedQuery(c, params) ==
    LET query_string == urlencode(params)
    IN  query_string
          \o <<"&", "signature", "=", generate_signature(c.api_secret, query_string)>>

QueryString(c, params, signed, now) ==
    IF signed THEN SignedQuery(c, Authenticate(c, params, now))
    ELSE urlencode(params)

\* Line 125.
Url(c, endpoint, query_string) ==
    IF query_string # <<>>
    THEN <<c.base_url, endpoint, "?">> \o query_string
    ELSE <<c.base_url, endpoint>>

\* A bug: the key travels under another header name.
Headers_OtherName(c) == [h \in {"X-API-KEY"} |-> c.api_key]

\* A bug: the wrong credential is put in the header.
Headers_SendsSecret(c) == [h \in {"X-MBX-APIKEY"} |-> c.api_secret]

\* Line 128.
Headers(c) == [h \in {"X-MBX-APIKEY"} |-> c.api_key]

\* Lines 108-139: the request that requests.get/post/delete/put is given.
make_request(c, method, endpoint, params, signed, now) ==
    [method |-> method,
     url |-> Url(c, endpoint, QueryString(c, params, signed, now)),
     headers |-> Headers(c)]

\* ------------------------------------------------------------ outcomes

NoBody == [text |-> "", json |-> FALSE, obj |-> FALSE, kv |-> {}, catalog |-> <<>>]

NoOutcome == [kind |-> "none", exc |-> "", msg |-> <<>>, body |-> NoBody, value |-> <<>>]

\* return <the decoded body>
Return(body) ==
    [kind |-> "return", exc |-> "", msg |-> <<>>, body |-> body, value |-> <<>>]

\* return <a value derived from the body>
ReturnValue(value) ==
    [kind |-> "return", exc |-> "", msg |-> <<>>, body |-> NoBody, value |-> value]

\* raise exc(msg)
Raise(exc, msg) ==
    [kind |-> "raise", exc |-> exc, msg |-> msg, body |-> NoBody, value |-> <<>>]

\* ------------------------------------------------- parameter building

\* Lines 291-317.
place_order_params(a) ==
    LET p0  == <<Item("symbol", StrVal(upper(a.symbol.s))),
                 Item("side", StrVal(upper(a.side.s))),
                 Item("type", StrVal(upper(a.order_type.s)))>>
        p1  == SetIfGiven(p0, "quantity", a.quantity, a.quantity)
        p2  == SetIfGiven(p1, "price", a.price, a.price)
        p3  == SetIfGiven(p2, "timeInForce", a.time_in_force,
                          StrVal(upper(a.time_in_force.s)))
        p4  == SetIfGiven(p3, "reduceOnly", a.reduce_only,
                          StrVal(lower(PyStr(a.reduce_only))))
        p5  == SetIfGiven(p4, "closePosition", a.close_position,
                          StrVal(lower(PyStr(a.close_position))))
        p6  == SetIfGiven(p5, "stopPrice", a.stop_price, a.stop_price)
        p7  == SetIfGiven(p6, "workingType", a.working_type,
                          StrVal(upper(a.working_type.s)))
        p8  == SetIfGiven(p7, "priceProtect", a.price_protect,
                          StrVal(lower(PyStr(a.price_protect))))
        p9  == SetIfGiven(p8, "newOrderRespType", a.new_order_resp_type,
                          StrVal(upper(a.new_order_resp_type.s)))
    IN  SetIfGiven(p9, "positionSide", a.position_side,
                   StrVal(upper(a.position_side.s)))

\* A bug: the else branch with its raise is left out.
OrderIdMissing_NoRaise(a) == FALSE

\* Lines 338-344 and 378-384: does the if/elif/else reach the raise?
OrderIdMissing(a) == a.order_id.t = "none" /\ a.orig_client_order_id.t = "none"

\* Lines 338-342 and 378-382: the dict built when the raise is not reached.
order_id_params(a) ==
    LET p0 == <<Item("symbol", StrVal(upper(a.symbol.s)))>>
    IN  IF a.order_id.t # "none"
        THEN DictSet(p0, "orderId", a.order_id)
        ELSE DictSet(p0, "origClientOrderId", a.orig_client_order_id)

\* Lines 190-192: the symbol as given, when truthy.
position_info_params(a) ==
    IF Truthy(a.symbol) THEN <<Item("symbol", a.symbol)>> ELSE <<>>

\* Lines 398-400: the symbol uppercased, when truthy.
open_orders_params(a) ==
    IF Truthy(a.symbol) THEN <<Item("symbol", StrVal(upper(a.symbol.s)))>> ELSE <<>>

\* Line 231.
current_price_params(a) == <<Item("symbol", a.symbol)>>

\* Line 358.
cancel_all_params(a) == <<Item("symbol", StrVal(upper(a.symbol.s)))>>

\* -------------------------------------------------------- the operations

\* The arguments of a call; an argument the operation does not take, or
\* that the caller leaves out, is None.
NoArgs ==
    [symbol |-> None, side |-> None, order_type |-> None, quantity |-> None,
     price |-> None, time_in_force |-> None, reduce_only |-> None,
     close_position |-> None, stop_price |-> None, working_type |-> None,
     price_protect |-> None, new_order_resp_type |-> None,
     position_side |-> None, order_id |-> None, orig_client_order_id |-> None]

\* Lines 418-423, 440-445, 466-473, 494-501: the place_order call that a
\* convenience method makes.
ConvenienceArgs(op, a) ==
    LET side == IF op \in {"buy_market", "buy_limit"} THEN "BUY" ELSE "SELL"
        type == IF op \in {"buy_market", "sell_market"} THEN "MARKET" ELSE "LIMIT"
        b    == [NoArgs EXCEPT !.symbol = a.symbol, !.side = StrVal(<<side>>),
                               !.order_type = StrVal(<<type>>),
                               !.quantity = a.quantity]
    IN  IF type = "LIMIT"
        THEN [b EXCEPT !.price = a.price, !.time_in_force = a.time_in_force]
        ELSE b

Conveniences == {"buy_market", "sell_market", "buy_limit", "sell_limit"}

\* The method that reaches _make_request for a public operation.
Callee(op) ==
    CASE op = "get_balance" -> "get_account_info"
      [] op = "get_symbol_info" -> "get_exchange_info"
      [] op \in Conveniences -> "place_order"
      [] OTHER -> op

CalleeArgs(op, a) == IF op \in Conveniences THEN ConvenienceArgs(op, a) ELSE a

\* The first argument of each _make_request call.
Method(op) ==
    CASE op = "place_order" -> "POST"
      [] op \in {"cancel_order", "cancel_all_orders"} -> "DELETE"
      [] OTHER -> "GET"

\* A bug: the account snapshot is asked of the v1 path.
Endpoint_AccountV1(op) ==
    CASE op = "get_account_info" -> "/fapi/v1/account"
      [] op = "get_position_info" -> "/fapi/v2/positionRisk"
      [] op = "get_exchange_info" -> "/fapi/v1/exchangeInfo"
      [] op = "get_current_price" -> "/fapi/v1/ticker/price"
      [] op = "place_order" -> "/fapi/v1/order"
      [] op = "cancel_order" -> "/fapi/v1/order"
      [] op = "cancel_all_orders" -> "/fapi/v1/allOpenOrders"
      [] op = "get_order_status" -> "/fapi/v1/order"
      [] op = "get_open_orders" -> "/fapi/v1/openOrders"

\* The second argument of each _make_request call.
Endpoint(op) ==
    CASE op = "get_account_info" -> "/fapi/v2/account"
      [] op = "get_position_info" -> "/fapi/v2/positionRisk"
      [] op = "get_exchange_info" -> "/fapi/v1/exchangeInfo"
      [] op = "get_current_price" -> "/fapi/v1/ticker/price"
      [] op = "place_order" -> "/fapi/v1/order"
      [] op = "cancel_order" -> "/fapi/v1/order"
      [] op = "cancel_all_orders" -> "/fapi/v1/allOpenOrders"
      [] op = "get_order_status" -> "/fapi/v1/order"
      [] op = "get_open_orders" -> "/fapi/v1/openOrders"

\* The signed argument of each _make_request call (default True).
Signed(op) == op \notin {"get_exchange_info", "get_current_price"}

\* The params argument of each _make_request call.
Params(op, a) ==
    CASE op = "get_position_info" -> position_info_params(a)
      [] op = "get_current_price" -> current_price_params(a)
      [] op = "place_order" -> place_order_params(a)
      [] op \in {"cancel_order", "get_order_status"} -> order_id_params(a)
      [] op = "cancel_all_orders" -> cancel_all_params(a)
      [] op = "get_open_orders" -> open_orders_params(a)
      [] OTHER -> <<>>

\* The exception an operation raises before it reaches _make_request.
BuildError(op, a) ==
    IF op \in {"cancel_order", "get_order_status"} /\ OrderIdMissing(a)
    THEN Raise("ValueError",
               <<"Either order_id or orig_client_order_id must be provided">>)
    ELSE NoOutcome

\* The request a public operation dispatches, when it raises nothing first.
Request(c, op, a, now) ==
    LET f == Callee(op)
        b == CalleeArgs(op, a)
    IN  make_request(c, Method(f), Endpoint(f), Params(f, b), Signed(f), now)

\* ------------------------------------------------------------ responses

\* A response body: its text, whether it decodes as JSON, whether the
\* decoded value is an object, the object's scalar members, and the
\* "symbol" members of the entries of its "symbols" array.
Body(text, json, obj, kv, catalog) ==
    [text |-> text, json |-> json, obj |-> obj, kv |-> kv, catalog |-> catalog]

HtmlBody == Body("<html>", FALSE, FALSE, {}, <<>>)

EmptyObject == Body("{}", TRUE, TRUE, {}, <<>>)

EmptyArray == Body("[]", TRUE, FALSE, {}, <<>>)

MsgBody == Body("{msg}", TRUE, TRUE, {<<"msg", "Invalid quantity.">>}, <<>>)

PriceBody == Body("{price}", TRUE, TRUE, {<<"price", "65000.50">>}, <<>>)

BadPriceBody == Body("{price:n/a}", TRUE, TRUE, {<<"price", "n/a">>}, <<>>)

ExchangeBody ==
    Body("{symbols}", TRUE, TRUE, {<<"symbols", "[...]">>}, <<"BTCUSDT", "ETHUSDT">>)

AccountBody ==
    Body("{account}", TRUE, TRUE,
         {<<"totalWalletBalance", "100.0">>, <<"totalUnrealizedProfit", "0.0">>,
          <<"availableBalance", "90.0">>}, <<>>)

OrderBody == Body("{order}", TRUE, TRUE, {<<"orderId", "1">>, <<"status", "NEW">>}, <<>>)

\* dict.get(k, default) on a decoded object.
Get(body, k, default) ==
    IF \E e \in body.kv : e[1] = k
    THEN (CHOOSE e \in body.kv : e[1] = k)[2]
    ELSE default

\* float(text): the texts that parse as a decimal number.
IsNumeric(text) == text \in {"65000.50", "100.0", "0.0", "90.0", "1"}

\* The bodies the exchange documents for an endpoint.
Documented(endpoint) ==
    CASE endpoint = "/fapi/v2/account" -> {AccountBody}
      [] endpoint = "/fapi/v1/exchangeInfo" -> {ExchangeBody}
      [] endpoint = "/fapi/v1/ticker/price" -> {PriceBody, BadPriceBody}
      [] endpoint \in {"/fapi/v1/order", "/fapi/v1/allOpenOrders"} -> {OrderBody}
      [] OTHER -> {EmptyArray}

Statuses == {200, 400, 503}

\* What the transport can hand back for a request: no response at all
\* (timeout, DNS failure), or a status with a body of any shape.
Responses(req) ==
    { [status |-> 0, err |-> e, body |-> NoBody] : e \in {"timed out", "dns failure"} }
    \cup
    { [status |-> st, err |-> "", body |-> b] :
        st \in Statuses,
        b \in Documented(req.url[2]) \cup {HtmlBody, EmptyObject, EmptyArray, MsgBody} }

\* str(HTTPError) as raise_for_status builds it.
HttpErrorText(req, status) ==
    <<ToString(status),
      IF status < 500 THEN " Client Error: " ELSE " Server Error: ",
      " for url: ">> \o req.url

\* Lines 146-152: the handler of requests.exceptions.HTTPError.
HttpErrorOutcome(req, resp) ==
    IF resp.body.json /\ ~resp.body.obj
    THEN \* error_data is a list: error_data.get is an attribute error
         Raise("AttributeError", <<"'list' object has no attribute 'get'">>)
    ELSE LET msg == IF resp.body.json
                    THEN <<Get(resp.body, "msg", "Unknown error")>>
                    ELSE HttpErrorText(req, resp.status)
         IN  Raise("Exception", <<"HTTP Error ", ToString(resp.status), ": ">> \o msg)

\* Line 144 on a body that is not JSON.  requests from 2.27 on raises
\* requests.exceptions.JSONDecodeError, a RequestException, which line 153
\* catches; an older requests raises json's own decode error, a ValueError,
\* which no handler of _make_request catches.
DecodeOutcomes ==
    { Raise("Exception", <<"Request failed: ", "Expecting value">>),
      Raise("JSONDecodeError", <<"Expecting value">>) }

\* Lines 131-154: the outcomes of _make_request once the transport is done.
Interpret(req, resp) ==
    IF resp.status = 0
    THEN { Raise("Exception", <<"Request failed: ", resp.err>>) }
    ELSE IF resp.status >= 400
    THEN { HttpErrorOutcome(req, resp) }
    ELSE IF resp.body.json
    THEN { Return(resp.body) }
    ELSE DecodeOutcomes

\* Lines 172-178: get_balance projects four members of the account.
balance(body) ==
    IF ~body.obj
    THEN Raise("AttributeError", <<"'list' object has no attribute 'get'">>)
    ELSE ReturnValue(<<Get(body, "totalWalletBalance", "None"),
                       Get(body, "totalUnrealizedProfit", "None"),
                       Get(body, "availableBalance", "None"),
                       Get(body, "assets", "[]")>>)

\* Lines 214-218: get_symbol_info scans the catalog for the exact symbol.
symbol_info(body, symbol) ==
    IF ~body.obj
    THEN Raise("AttributeError", <<"'list' object has no attribute 'get'">>)
    ELSE IF \E i \in DOMAIN body.catalog : <<body.catalog[i]>> = symbol.s
    THEN ReturnValue(<<"entry", symbol.s[1]>>)
    ELSE ReturnValue(<<"None">>)

\* Line 233: get_current_price converts the "price" member.
current_price(body) ==
    IF ~body.obj
    THEN Raise("TypeError", <<"list indices must be integers or slices, not str">>)
    ELSE IF Get(body, "price", "") = ""
    THEN Raise("KeyError", <<"price">>)
    ELSE IF IsNumeric(Get(body, "price", ""))
    THEN ReturnValue(<<"float", Get(body, "price", "")>>)
    ELSE Raise("ValueError", <<"could not convert string to float">>)

\* What the public operation makes of _make_request's outcome.
Finish(op, a, out) ==
    IF out.kind # "return" THEN out
    ELSE CASE op = "get_balance" -> balance(out.body)
           [] op = "get_symbol_info" -> symbol_info(out.body, a.symbol)
           [] op = "get_current_price" -> current_price(out.body)
           [] OTHER -> out

\* ------------------------------------------------------------- inputs

\* Lines 64-68.
Client(api_key, api_secret, testnet, recv_window) ==
    [api_key |-> api_key, api_secret |-> api_secret, testnet |-> testnet,
     recv_window |-> recv_window,
     base_url |-> IF testnet THEN "https://demo-fapi.binance.com"
                  ELSE "https://fapi.binance.com"]

Clients ==
    { Client("key-1", "secret-A", FALSE, 5000),
      Client("key-1", "secret-B", FALSE, 5000),
      Client("key-2", "secret-A", TRUE, 60000) }

Symbols ==
    { StrVal(<<"btcusdt">>), StrVal(<<"ETHUSDT">>),
      StrVal(<<"x", "&", "timestamp", "=", "9">>) }

OptSymbols == Symbols \cup {None, StrVal(<<>>)}

Sides == { StrVal(<<"buy">>), StrVal(<<"SELL">>) }

OrderTypes == { StrVal(<<"limit">>), StrVal(<<"MARKET">>) }

Quantities == { FloatVal("0.001") }

Prices == { FloatVal("50000.0") }

TimesInForce == { StrVal(<<"gtc">>) }

OrderIds == { IntVal(0), IntVal(7) }

ClientOrderIds == { StrVal(<<"my", " ", "id">>), StrVal(<<>>) }

Opt(S) == S \cup {None}

\* The seven trailing optional arguments of place_order and a value for each.
Extras ==
    [reduce_only |-> BoolVal(TRUE), close_position |-> BoolVal(FALSE),
     stop_price |-> FloatVal("49000.5"), working_type |-> StrVal(<<"mark_price">>),
     price_protect |-> BoolVal(TRUE), new_order_resp_type |-> StrVal(<<"result">>),
     position_side |-> StrVal(<<"long">>)]

WithExtras(a, given) ==
    [f \in DOMAIN a |-> IF f \in given THEN Extras[f] ELSE a[f]]

NoCall == [op |-> "", args |-> NoArgs, now |-> 0]

NoResponse == [status |-> 0, err |-> "", body |-> NoBody]

\* The threads that call the one shared client.
Threads == 1 .. NThreads

NoRequest == [method |-> "", url |-> <<>>, headers |-> [h \in {"X-MBX-APIKEY"} |-> ""]]

\* The locals of a thread: where it is in its call ("idle", "built": the
\* operation has filled its dict, "stamped": lines 112-114 are done, "sent":
\* the transport call is pending, "done"), the call, and what lines 113,
\* 125-139 and 143-154 computed.
IdleThread ==
    [pc |-> "idle", op |-> "", args |-> NoArgs, now |-> 0, req |-> NoRequest,
     resp |-> NoResponse, out |-> NoOutcome]

\* The calls the threads make.
ConcurrentCalls ==
    { <<"get_account_info", NoArgs>>,
      <<"get_current_price", [NoArgs EXCEPT !.symbol = StrVal(<<"btcusdt">>)]>>,
      <<"cancel_order", [NoArgs EXCEPT !.symbol = StrVal(<<"ETHUSDT">>),
                                       !.order_id = IntVal(7)]>>,
      <<"cancel_order", [NoArgs EXCEPT !.symbol = StrVal(<<"ETHUSDT">>)]>> }

\* What the transport hands back to a thread: a timeout, the documented
\* body, or an error status with a message.
ConcurrentResponses(req) ==
    { r \in Responses(req) :
        \/ r.err = "timed out"
        \/ r.status = 200 /\ r.body \in Documented(req.url[2])
        \/ r.status = 400 /\ r.body = MsgBody }

\* ------------------------------------------------------------ actions

Init ==
    /\ client \in Clients
    /\ clock = 0
    /\ pc = "idle"
    /\ call = NoCall
    /\ wire = <<>>
    /\ response = NoResponse
    /\ outcome = NoOutcome
    /\ threads = [t \in Threads |-> IdleThread]
    /\ dicts = [t \in Threads |-> <<>>]

\* A public operation, from its first line to the point where it raises or
\* blocks in requests.get/post/delete/put.
Invoke(op, a) ==
    /\ call' = [op |-> op, args |-> a, now |-> clock]
    /\ IF BuildError(Callee(op), CalleeArgs(op, a)).kind = "raise"
       THEN /\ outcome' = BuildError(Callee(op), CalleeArgs(op, a))
            /\ pc' = "done"
            /\ wire' = wire
       ELSE /\ outcome' = NoOutcome
            /\ pc' = "inflight"
            /\ wire' = Append(wire, Request(client, op, a, clock))
    /\ UNCHANGED <<client, clock, response, threads, dicts>>

get_account_info ==
    /\ pc = "idle"
    /\ Invoke("get_account_info", NoArgs)

get_balance ==
    /\ pc = "idle"
    /\ Invoke("get_balance", NoArgs)

get_position_info ==
    /\ pc = "idle"
    /\ \E s \in OptSymbols :
         Invoke("get_position_info", [NoArgs EXCEPT !.symbol = s])

get_exchange_info ==
    /\ pc = "idle"
    /\ Invoke("get_exchange_info", NoArgs)

get_symbol_info ==
    /\ pc = "idle"
    /\ \E s \in Symbols : Invoke("get_symbol_info", [NoArgs EXCEPT !.symbol = s])

get_current_price ==
    /\ pc = "idle"
    /\ \E s \in Symbols : Invoke("get_current_price", [NoArgs EXCEPT !.symbol = s])

place_order ==
    /\ pc = "idle"
    /\ \E s \in Symbols, sd \in Sides, ty \in OrderTypes, q \in Opt(Quantities),
          p \in Opt(Prices), tif \in Opt(TimesInForce),
          given \in { g \in SUBSET DOMAIN Extras :
                       Cardinality(g) <= MaxExtras \/ g = DOMAIN Extras } :
         Invoke("place_order",
                WithExtras([NoArgs EXCEPT !.symbol = s, !.side = sd,
                                          !.order_type = ty, !.quantity = q,
                                          !.price = p, !.time_in_force = tif],
                           given))

cancel_order ==
    /\ pc = "idle"
    /\ \E s \in Symbols, id \in Opt(OrderIds), cid \in Opt(ClientOrderIds) :
         Invoke("cancel_order",
                [NoArgs EXCEPT !.symbol = s, !.order_id = id,
                               !.orig_client_order_id = cid])

cancel_all_orders ==
    /\ pc = "idle"
    /\ \E s \in Symbols : Invoke("cancel_all_orders", [NoArgs EXCEPT !.symbol = s])

get_order_status ==
    /\ pc = "idle"
    /\ \E s \in Symbols, id \in Opt(OrderIds), cid \in Opt(ClientOrderIds) :
         Invoke("get_order_status",
                [NoArgs EXCEPT !.symbol = s, !.order_id = id,
                               !.orig_client_order_id = cid])

get_open_orders ==
    /\ pc = "idle"
    /\ \E s \in OptSymbols : Invoke("get_open_orders", [NoArgs EXCEPT !.symbol = s])

buy_market ==
    /\ pc = "idle"
    /\ \E s \in Symbols, q \in Quantities :
         Invoke("buy_market", [NoArgs EXCEPT !.symbol = s, !.quantity = q])

sell_market ==
    /\ pc = "idle"
    /\ \E s \in Symbols, q \in Quantities :
         Invoke("sell_market", [NoArgs EXCEPT !.symbol = s, !.quantity = q])

buy_limit ==
    /\ pc = "idle"
    /\ \E s \in Symbols, q \in Quantities, p \in Prices, tif \in TimesInForce :
         Invoke("buy_limit", [NoArgs EXCEPT !.symbol = s, !.quantity = q,
                                           !.price = p, !.time_in_force = tif])

sell_limit ==
    /\ pc = "idle"
    /\ \E s \in Symbols, q \in Quantities, p \in Prices, tif \in TimesInForce :
         Invoke("sell_limit", [NoArgs EXCEPT !.symbol = s, !.quantity = q,
                                            !.price = p, !.time_in_force = tif])

\* The transport call returns or raises, and the operation runs to its end.
Respond ==
    /\ pc = "inflight"
    /\ \E resp \in Responses(wire[Len(wire)]) :
         \E out \in Interpret(wire[Len(wire)], resp) :
            /\ response' = resp
            /\ outcome' = Finish(call.op, call.args, out)
    /\ pc' = "done"
    /\ UNCHANGED <<client, clock, call, wire, threads, dicts>>

\* The caller has its result or its exception; nothing of the call is kept.
Finished ==
    /\ pc = "done"
    /\ pc' = "idle"
    /\ call' = NoCall
    /\ wire' = <<>>
    /\ response' = NoResponse
    /\ outcome' = NoOutcome
    /\ UNCHANGED <<client, clock, threads, dicts>>

\* Time passes.  A call that runs alone reads the clock in Invoke only, so
\* the ticks between two calls are all of the passing of time it can
\* observe; among threads the clock ticks between any two steps.
Tick ==
    /\ pc = "idle"
    /\ clock < MaxClock
    /\ clock' = clock + 1
    /\ UNCHANGED <<client, pc, call, wire, response, outcome, threads, dicts>>

Next ==
    \/ get_account_info \/ get_balance \/ get_position_info
    \/ get_exchange_info \/ get_symbol_info \/ get_current_price
    \/ place_order \/ cancel_order \/ cancel_all_orders
    \/ get_order_status \/ get_open_orders
    \/ buy_market \/ sell_market \/ buy_limit \/ sell_limit
    \/ Respond \/ Finished \/ Tick

Spec == Init /\ [][Next]_vars

\* ------------------------------------------ _make_request called directly

\* Lines 132-139: the methods that have a branch.
SupportedMethods == {"GET", "POST", "DELETE", "PUT"}

\* The method arguments of a direct call; the comparison of lines 132-138
\* is exact, so "get" has no branch.
MethodArgs == SupportedMethods \cup {"PATCH", "get"}

\* The endpoint arguments of a direct call.
EndpointArgs == {"/fapi/v1/order", "/fapi/v1/listenKey"}

\* The params arguments of a direct call: None, or a dict of one entry.
ParamsArgs == {<<>>} \cup { <<Item("symbol", s)>> : s \in Symbols }

\* Lines 86-141: _make_request called with a method, an endpoint, params
\* and signed of the caller's choosing, up to the point where it blocks in
\* the transport or raises at line 141.
call_make_request ==
    /\ pc = "idle"
    /\ \E method \in MethodArgs, endpoint \in EndpointArgs,
          params \in ParamsArgs, signed \in BOOLEAN :
         /\ call' = [op |-> "_make_request", args |-> NoArgs, now |-> clock]
         /\ IF method \in SupportedMethods
            THEN /\ wire' = Append(wire, make_request(client, method, endpoint,
                                                      params, signed, clock))
                 /\ outcome' = NoOutcome
                 /\ pc' = "inflight"
            ELSE /\ wire' = wire
                 /\ outcome' = Raise("ValueError",
                                     <<"Unsupported HTTP method: ", method>>)
                 /\ pc' = "done"
    /\ UNCHANGED <<client, clock, response, threads, dicts>>

DirectNext == Next \/ call_make_request

SpecDirect == Init /\ [][DirectNext]_vars

\* ------------------------------------------- threads sharing the client

\* A bug: every call works on one and the same dict object (a mutable
\* default argument, a dict kept on self).
DictOf_Shared(t) == 1

\* Lines 108-109, 190, 231, 291, 338, 358, 378, 398: each call creates the
\* dict it works on; no two calls hold the same object.
DictOf(t) == t

\* A thread enters a public operation, which raises or fills its dict.
thread_call(t) ==
    /\ threads[t].pc = "idle"
    /\ \E c \in ConcurrentCalls :
         LET op == c[1]
             a  == c[2]
             e  == BuildError(Callee(op), CalleeArgs(op, a))
         IN  IF e.kind = "raise"
             THEN /\ threads' = [threads EXCEPT ![t] =
                        [IdleThread EXCEPT !.pc = "done", !.op = op, !.args = a,
                                           !.out = e]]
                  /\ dicts' = dicts
             ELSE /\ threads' = [threads EXCEPT ![t] =
                        [IdleThread EXCEPT !.pc = "built", !.op = op, !.args = a]]
                  /\ dicts' = [dicts EXCEPT ![DictOf(t)] =
                        Params(Callee(op), CalleeArgs(op, a))]
    /\ UNCHANGED <<client, clock, pc, call, wire, response, outcome>>

\* Lines 112-114: a signed call reads the clock and self.recv_window and
\* stores both in its dict.
thread_stamp(t) ==
    /\ threads[t].pc = "built"
    /\ IF Signed(Callee(threads[t].op))
       THEN /\ dicts' = [dicts EXCEPT ![DictOf(t)] =
                  Authenticate(client, dicts[DictOf(t)], clock)]
            /\ threads' = [threads EXCEPT ![t].pc = "stamped", ![t].now = clock]
       ELSE /\ dicts' = dicts
            /\ threads' = [threads EXCEPT ![t].pc = "stamped"]
    /\ UNCHANGED <<client, clock, pc, call, wire, response, outcome>>

\* Lines 117-139: the dict is encoded, signed with self.api_secret, and
\* sent to self.base_url with self.api_key.
thread_send(t) ==
    /\ threads[t].pc = "stamped"
    /\ LET f  == Callee(threads[t].op)
           qs == IF Signed(f) THEN SignedQuery(client, dicts[DictOf(t)])
                 ELSE urlencode(dicts[DictOf(t)])
       IN  threads' = [threads EXCEPT ![t].pc = "sent",
                          ![t].req = [method |-> Method(f),
                                      url |-> Url(client, Endpoint(f), qs),
                                      headers |-> Headers(client)]]
    /\ UNCHANGED <<client, clock, pc, call, wire, response, outcome, dicts>>

\* Lines 143-154 and the rest of the operation: the transport call ends.
thread_receive(t) ==
    /\ threads[t].pc = "sent"
    /\ \E resp \in ConcurrentResponses(threads[t].req) :
         \E out \in Interpret(threads[t].req, resp) :
            threads' = [threads EXCEPT ![t].pc = "done", ![t].resp = resp,
                           ![t].out = Finish(threads[t].op, threads[t].args, out)]
    /\ UNCHANGED <<client, clock, pc, call, wire, response, outcome, dicts>>

\* The thread's caller has its result; the locals and the dict are gone.
thread_return(t) ==
    /\ threads[t].pc = "done"
    /\ threads' = [threads EXCEPT ![t] = IdleThread]
    /\ dicts' = [dicts EXCEPT ![DictOf(t)] = <<>>]
    /\ UNCHANGED <<client, clock, pc, call, wire, response, outcome>>

ConcurrentNext ==
    \/ \E t \in Threads : thread_call(t)
    \/ \E t \in Threads : thread_stamp(t)
    \/ \E t \in Threads : thread_send(t)
    \/ \E t \in Threads : thread_receive(t)
    \/ \E t \in Threads : thread_return(t)
    \/ Tick

\* Threads run public operations of one client, interleaved line by line.
SpecConcurrent == Init /\ [][ConcurrentNext]_vars

\* ------------------------------------------- reading a request as sent

\* The query string of a dispatched request: what follows the "?".
Query(r) == IF Len(r.url) > 3 THEN SubSeq(r.url, 4, Len(r.url)) ELSE <<>>

\* The positions where a parameter starts: the first token and every token
\* after a separator.
KeyPositions(qs) == { i \in DOMAIN qs : i = 1 \/ qs[i - 1] = "&" }

\* The parameter names of a query string, in the order they are sent.
WireKeys(qs) ==
    LET starts == SelectSeq([i \in DOMAIN qs |-> i],
                            LAMBDA i : i = 1 \/ qs[i - 1] = "&")
    IN  [j \in DOMAIN starts |-> qs[starts[j]]]

\* The (encoded) value of the parameter that starts at position i.
WireValue(qs, i) ==
    LET stops == { j \in DOMAIN qs : j > i /\ qs[j] = "&" } \cup {Len(qs) + 1}
        stop  == CHOOSE j \in stops : \A k \in stops : j <= k
    IN  SubSeq(qs, i + 2, stop - 1)

\* The values sent under the name k.
WireValues(qs, k) == { WireValue(qs, i) : i \in { j \in KeyPositions(qs) : qs[j] = k } }

CountKey(qs, k) == Cardinality({ i \in KeyPositions(qs) : qs[i] = k })

\* The names and values sent ahead of the three authentication parameters.
WireItems(qs) ==
    LET starts == SelectSeq([i \in DOMAIN qs |-> i],
                            LAMBDA i : (i = 1 \/ qs[i - 1] = "&")
                                       /\ qs[i] \notin {"timestamp", "recvWindow", "signature"})
    IN  [j \in DOMAIN starts |-> <<qs[starts[j]], WireValue(qs, starts[j])>>]

\* The error kinds of the design, as a caller can tell them apart: by the
\* exception's class and the fixed prefix of its message.
ErrorKind(out) ==
    CASE out.kind # "raise" -> "none"
      [] out.exc = "ValueError" -> "InvalidParameters"
      [] out.exc = "Exception" /\ out.msg[1] = "HTTP Error " -> "ApiError"
      [] out.exc = "Exception" /\ out.msg[1] = "Request failed: " -> "TransportError"
      [] out.exc = "JSONDecodeError" -> "DecodeError"
      [] OTHER -> "other"

Absent(v) == v.t = "none"

\* The current call is op and has got as far as raising or dispatching.
Running(op) == pc # "idle" /\ call.op = op

IsLimit(a) == upper(a.order_type.s) = <<"LIMIT">>

IsMarket(a) == upper(a.order_type.s) = <<"MARKET">>

\* The call raised before anything went to the transport.
RejectedBeforeDispatch ==
    /\ pc = "done"
    /\ ErrorKind(outcome) = "InvalidParameters"
    /\ wire = <<>>
    /\ response = NoResponse

\* ------------------------------------------------------------- claims

\* C1: place_order with type LIMIT and no price, or type LIMIT and no
\* time-in-force, fails with InvalidParameters and dispatches nothing;
\* place_order with type MARKET and neither price nor time-in-force
\* dispatches a request.
C1_LimitRequiresPriceAndTif ==
    Running("place_order") =>
        /\ (IsLimit(call.args)
              /\ (Absent(call.args.price) \/ Absent(call.args.time_in_force)))
            => RejectedBeforeDispatch
        /\ (IsMarket(call.args)
              /\ Absent(call.args.price) /\ Absent(call.args.time_in_force))
            => Len(wire) = 1

\* C2: cancel_order and get_order_status with neither identifier raise
\* InvalidParameters before anything is dispatched; with exactly one
\* identifier they dispatch one request whose own parameters are the
\* uppercased symbol and that identifier, and nothing else.
C2_OrderIdOneOrNone ==
    \A op \in {"cancel_order", "get_order_status"} :
        Running(op) =>
            LET a   == call.args
                sym == <<"symbol", quote_plus(upper(a.symbol.s))>>
            IN  /\ (Absent(a.order_id) /\ Absent(a.orig_client_order_id))
                    => RejectedBeforeDispatch
                /\ (~Absent(a.order_id) /\ Absent(a.orig_client_order_id))
                    => /\ Len(wire) = 1
                       /\ WireItems(Query(wire[1]))
                            = <<sym, <<"orderId", <<ToString(a.order_id.n)>>>>>>
                /\ (Absent(a.order_id) /\ ~Absent(a.orig_client_order_id))
                    => /\ Len(wire) = 1
                       /\ WireItems(Query(wire[1]))
                            = <<sym, <<"origClientOrderId",
                                       quote_plus(a.orig_client_order_id.s)>>>>

\* C2's case: an order status query by client order id alone has run.
C2_Witness ==
    /\ Running("get_order_status")
    /\ Absent(call.args.order_id)
    /\ call.args.orig_client_order_id = StrVal(<<"my", " ", "id">>)
    /\ pc = "done"
    /\ outcome.kind = "return"

\* C3: cancel_order and get_order_status with both identifiers supplied
\* raise InvalidParameters and dispatch nothing.
C3_BothIdsRejected ==
    \A op \in {"cancel_order", "get_order_status"} :
        (Running(op) /\ ~Absent(call.args.order_id)
                     /\ ~Absent(call.args.orig_client_order_id))
        => RejectedBeforeDispatch

\* The current call is a signed operation and its request has gone out.
SignedDispatched == pc # "idle" /\ wire # <<>> /\ Signed(Callee(call.op))

\* The names of the parameters the operation itself built, in dict order.
BuiltKeys == Keys(Params(Callee(call.op), CalleeArgs(call.op, call.args)))

\* C4 as stated: a signed query string is timestamp, recvWindow, the
\* operation's parameters in insertion order, signature.
C4_TimestampFirst ==
    SignedDispatched =>
        \A i \in DOMAIN wire :
            WireKeys(Query(wire[i]))
              = <<"timestamp", "recvWindow">> \o BuiltKeys \o <<"signature">>

\* C4 amended: a signed query string is the operation's parameters in
\* insertion order, then timestamp, then recvWindow, then signature last.
C4_TimestampAfterBuilt ==
    SignedDispatched =>
        \A i \in DOMAIN wire :
            WireKeys(Query(wire[i]))
              = BuiltKeys \o <<"timestamp", "recvWindow", "signature">>

\* C4's case: a limit order, six parameters of its own, has been dispatched.
C4_Witness ==
    /\ Running("buy_limit")
    /\ pc = "inflight"
    /\ Len(BuiltKeys) = 6

\* C5: the query string sent by a signed request is the signed string
\* followed by "&signature=" and the tag of exactly that string under the
\* client's secret; the signed string holds timestamp and recvWindow and
\* no signature parameter.
C5_SignatureOverSentPrefix ==
    SignedDispatched =>
        \A i \in DOMAIN wire :
            LET qs     == Query(wire[i])
                signed == SubSeq(qs, 1, Len(qs) - 4)
            IN  /\ Len(qs) > 4
                /\ qs = signed \o <<"&", "signature", "=",
                                    generate_signature(client.api_secret, signed)>>
                /\ CountKey(signed, "timestamp") = 1
                /\ CountKey(signed, "recvWindow") = 1
                /\ CountKey(signed, "signature") = 0

\* C5's case: a signed order with an escaped value has been dispatched.
C5_Witness ==
    /\ Running("cancel_order")
    /\ pc = "inflight"
    /\ call.args.symbol = StrVal(<<"x", "&", "timestamp", "=", "9">>)
    /\ call.args.orig_client_order_id = StrVal(<<"my", " ", "id">>)
    /\ Absent(call.args.order_id)

\* C6: a signed request carries exactly one timestamp, the clock value
\* read by the call, and exactly one recvWindow, the value given at
\* construction; nothing the caller passes shows up under either name.
C6_OneTimestampOneRecvWindow ==
    SignedDispatched =>
        \A i \in DOMAIN wire :
            LET qs == Query(wire[i])
            IN  /\ CountKey(qs, "timestamp") = 1
                /\ CountKey(qs, "recvWindow") = 1
                /\ WireValues(qs, "timestamp") = {<<ToString(call.now)>>}
                /\ WireValues(qs, "recvWindow") = {<<ToString(client.recv_window)>>}

\* C6's case: after a tick, a caller passes "x&timestamp=9" as the symbol
\* of an operation that sends the symbol as given.
C6_Witness ==
    /\ Running("get_position_info")
    /\ pc = "inflight"
    /\ call.now = 1
    /\ call.args.symbol = StrVal(<<"x", "&", "timestamp", "=", "9">>)

\* The transport handed back a response with a success status.
HttpSuccess == pc = "done" /\ response.status >= 200 /\ response.status < 300

\* The transport handed back a response with an error status.
HttpError == pc = "done" /\ response.status >= 400

\* C7: a success status with a non-empty body that is not JSON makes the
\* call fail with a DecodeError, a kind of its own, neither TransportError
\* nor ApiError; the body is never returned.
C7_DecodeErrorIsItsOwnKind ==
    (HttpSuccess /\ response.body.text # "" /\ ~response.body.json)
    => /\ outcome.kind = "raise"
       /\ ErrorKind(outcome) = "DecodeError"

\* C8: an error status always makes the call fail with an ApiError that
\* carries the status and a message: the body's "msg" member when the body
\* is a JSON object that has one, a fallback text otherwise.
C8_ErrorStatusIsApiError ==
    HttpError =>
        /\ ErrorKind(outcome) = "ApiError"
        /\ outcome.msg[2] = ToString(response.status)
        /\ Len(outcome.msg) > 3
        /\ (response.body.obj /\ Get(response.body, "msg", "") # "")
            => SubSeq(outcome.msg, 4, Len(outcome.msg))
                 = <<Get(response.body, "msg", "")>>

\* C9: a call dispatches at most one request and ends in a returned result
\* or in one error of the kinds InvalidParameters, TransportError, ApiError,
\* DecodeError.
C9_OneRequestOneTypedOutcome ==
    /\ Len(wire) <= 1
    /\ pc = "done"
        => \/ outcome.kind = "return"
           \/ ErrorKind(outcome) \in {"InvalidParameters", "TransportError",
                                       "ApiError", "DecodeError"}

\* The method, path and signedness that the design's table gives each
\* public operation.
Table(op) ==
    CASE op \in {"get_account_info", "get_balance"} -> <<"GET", "/fapi/v2/account", TRUE>>
      [] op = "get_position_info" -> <<"GET", "/fapi/v2/positionRisk", TRUE>>
      [] op \in {"get_exchange_info", "get_symbol_info"}
           -> <<"GET", "/fapi/v1/exchangeInfo", FALSE>>
      [] op = "get_current_price" -> <<"GET", "/fapi/v1/ticker/price", FALSE>>
      [] op \in {"place_order", "buy_market", "sell_market", "buy_limit", "sell_limit"}
           -> <<"POST", "/fapi/v1/order", TRUE>>
      [] op = "cancel_order" -> <<"DELETE", "/fapi/v1/order", TRUE>>
      [] op = "cancel_all_orders" -> <<"DELETE", "/fapi/v1/allOpenOrders", TRUE>>
      [] op = "get_order_status" -> <<"GET", "/fapi/v1/order", TRUE>>
      [] op = "get_open_orders" -> <<"GET", "/fapi/v1/openOrders", TRUE>>

\* C10: every request has the method and path of its operation's row of
\* the table, and carries timestamp, recvWindow and signature exactly when
\* that row says signed.
C10_MethodPathSigned ==
    \A i \in DOMAIN wire :
        LET qs == Query(wire[i])
            n  == [k \in {"timestamp", "recvWindow", "signature"} |-> CountKey(qs, k)]
        IN  /\ wire[i].method = Table(call.op)[1]
            /\ wire[i].url[2] = Table(call.op)[2]
            /\ IF Table(call.op)[3]
               THEN \A k \in DOMAIN n : n[k] = 1
               ELSE \A k \in DOMAIN n : n[k] = 0

\* C10's case: a balance query, a derived and signed operation, has
\* dispatched its one request and returned.
C10_Witness ==
    /\ Running("get_balance")
    /\ pc = "done"
    /\ outcome.kind = "return"
    /\ Len(wire) = 1

\* The optional arguments of place_order and the names they are sent
\* under, in the order the design fixes.
OptionalOrder ==
    << <<"quantity", "quantity">>, <<"price", "price">>,
       <<"time_in_force", "timeInForce">>, <<"reduce_only", "reduceOnly">>,
       <<"close_position", "closePosition">>, <<"stop_price", "stopPrice">>,
       <<"working_type", "workingType">>, <<"price_protect", "priceProtect">>,
       <<"new_order_resp_type", "newOrderRespType">>,
       <<"position_side", "positionSide">> >>

\* The names of the optional arguments that a supplies, in that order.
SuppliedNames(a) ==
    LET given == SelectSeq(OptionalOrder, LAMBDA e : ~Absent(a[e[1]]))
    IN  [j \in DOMAIN given |-> given[j][2]]

\* The place_order call behind the current call, a convenience or not.
OrderArgs == CalleeArgs(call.op, call.args)

OrderDispatched ==
    /\ pc # "idle"
    /\ call.op \in {"place_order"} \cup Conveniences
    /\ wire # <<>>

\* C11: the parameters place_order builds are symbol, side and type, each
\* uppercased, then one entry per supplied optional argument and none for
\* an absent one, in the order quantity, price, timeInForce, reduceOnly,
\* closePosition, stopPrice, workingType, priceProtect, newOrderRespType,
\* positionSide; a flag is sent as "true" or "false"; buy_market and
\* sell_market build exactly symbol, side, type MARKET and quantity.
C11_PlaceOrderParams ==
    OrderDispatched =>
        LET items == WireItems(Query(wire[1]))
            a     == OrderArgs
        IN  /\ [j \in DOMAIN items |-> items[j][1]]
                  = <<"symbol", "side", "type">> \o SuppliedNames(a)
            /\ items[1][2] = quote_plus(upper(a.symbol.s))
            /\ items[2][2] = upper(a.side.s)
            /\ items[3][2] = upper(a.order_type.s)
            /\ \A j \in DOMAIN items :
                   \A e \in {"reduce_only", "close_position", "price_protect"} :
                      (\E i \in DOMAIN OptionalOrder :
                          OptionalOrder[i] = <<e, items[j][1]>>)
                      => items[j][2] = <<IF a[e].n = 1 THEN "true" ELSE "false">>
            /\ call.op \in {"buy_market", "sell_market"}
                => items = << <<"symbol", quote_plus(upper(call.args.symbol.s))>>,
                              <<"side", <<IF call.op = "buy_market"
                                          THEN "BUY" ELSE "SELL">>>>,
                              <<"type", <<"MARKET">>>>,
                              <<"quantity", call.args.quantity.s>> >>

\* C11's case: an order with all ten optional arguments has been dispatched.
C11_Witness ==
    /\ Running("place_order")
    /\ pc = "inflight"
    /\ Len(SuppliedNames(call.args)) = 10

\* What thread t's call gives when it runs alone: the request of its
\* arguments and clock reading, and the outcomes of its response.
AloneRequest(t) == Request(client, threads[t].op, threads[t].args, threads[t].now)

AloneOutcomes(t) ==
    IF threads[t].req = NoRequest
    THEN { BuildError(Callee(threads[t].op),
                      CalleeArgs(threads[t].op, threads[t].args)) }
    ELSE { Finish(threads[t].op, threads[t].args, out) :
             out \in Interpret(AloneRequest(t), threads[t].resp) }

Isolated ==
    \A t \in Threads :
        /\ threads[t].pc = "sent" => threads[t].req = AloneRequest(t)
        /\ threads[t].pc = "done"
            => /\ threads[t].req \in {NoRequest, AloneRequest(t)}
               /\ threads[t].out \in AloneOutcomes(t)

\* C12: whatever the interleaving of the threads that share a client, the
\* client's credentials, base URL and receive window never change, and
\* each call's request and outcome are those of the same call run alone
\* with the same arguments, clock reading and response.
C12_CallsAreIsolated == [](client \in Clients /\ Isolated) /\ [][client' = client]_vars

\* C12's case: a signed call has got its response while another thread,
\* which read the clock later, is between stamping and sending.
C12_Witness ==
    \E t, u \in Threads :
        /\ threads[t].pc = "done"
        /\ threads[t].op = "cancel_order"
        /\ threads[t].out.kind = "return"
        /\ threads[u].pc = "stamped"
        /\ threads[u].op = "get_account_info"
        /\ threads[u].now > threads[t].now

Range(f) == { f[x] : x \in DOMAIN f }

Secrets == { c.api_secret : c \in Clients }

\* A text with every signature value blanked.
Redact(text) ==
    [i \in DOMAIN text |->
        IF i > 2 /\ text[i - 2] = "signature" /\ text[i - 1] = "="
        THEN "<tag>" ELSE text[i]]

RedactOutcome(out) == [out EXCEPT !.msg = Redact(out.msg)]

\* Every text a caller gets back in an outcome.
OutcomeTexts(out) ==
    Range(out.msg) \cup Range(out.value) \cup Range(out.body.catalog)
      \cup {out.exc, out.body.text} \cup { e[2] : e \in out.body.kv }

\* The request of the current call, had the client been built with
\* another secret and all else equal.
RequestUnder(secret) ==
    Request([client EXCEPT !.api_secret = secret], call.op, call.args, call.now)

\* C13: the secret is in no dispatched URL, in no header, in no returned
\* value and in no error message; a client that differs in its secret
\* alone sends the same request and ends in the same outcome, but for the
\* value of the signature parameter.
C13_SecretOnlyInTag ==
    (pc # "idle" /\ call.op # "") =>
        /\ client.api_secret \notin OutcomeTexts(outcome)
        /\ \A i \in DOMAIN wire :
              /\ client.api_secret \notin Range(wire[i].url)
              /\ client.api_secret \notin Range(wire[i].headers)
              /\ \A secret \in Secrets :
                    LET other == RequestUnder(secret)
                    IN  /\ other.method = wire[i].method
                        /\ other.headers = wire[i].headers
                        /\ Redact(other.url) = Redact(wire[i].url)
                        /\ (pc = "done")
                            => RedactOutcome(outcome)
                                 \in { RedactOutcome(Finish(call.op, call.args, out)) :
                                         out \in Interpret(other, response) }

\* C13's case: a signed call ended in an error whose message quotes the
\* URL, signature and all.
C13_Witness ==
    /\ Running("cancel_all_orders")
    /\ pc = "done"
    /\ response.status = 400
    /\ response.body = HtmlBody
    /\ \E i \in DOMAIN outcome.msg : outcome.msg[i] = "signature"
    /\ client.api_secret = "secret-B"

\* C14: every request on the wire, signed or not, sent by GET, POST,
\* DELETE or PUT, has the header X-MBX-APIKEY, and its value is the key
\* the client was constructed with; a call of a method that has a branch
\* does put a request on the wire.
C14_KeyHeaderOnEveryRequest ==
    /\ client \in Clients
    /\ \A i \in DOMAIN wire :
          /\ wire[i].method \in SupportedMethods
          /\ "X-MBX-APIKEY" \in DOMAIN wire[i].headers
          /\ wire[i].headers["X-MBX-APIKEY"] = client.api_key
    /\ (pc = "inflight") => Len(wire) = 1

\* C14's case: an unsigned PUT is on the wire.
C14_Witness ==
    /\ Running("_make_request")
    /\ pc = "inflight"
    /\ wire[1].method = "PUT"
    /\ \A i \in DOMAIN wire[1].url : wire[1].url[i] # "signature"
    /\ wire[1].headers["X-MBX-APIKEY"] = "key-2"

====
